---- MODULE Spec2Model ----
(***************************************************************************)
(* Voice connection lifecycle of harmony (package voice): the handshake    *)
(* performed by Connection.connect, the supervisor goroutine               *)
(* Connection.wait with onError / onDisconnect, Connection.Close, and the  *)
(* subordinate goroutines the handshake starts.                            *)
(*                                                                         *)
(* Every handshake (execution of connect) has a generation number g: 0 is  *)
(* the one run by Connect, g > 0 those run by reconnectWithBackoff.  The   *)
(* sockets a handshake opens and the channels a reconnection re-creates    *)
(* are objects named by a generation; the fields vc.conn, vc.udpConn and   *)
(* vc.stop / vc.payloads / vc.error / vc.ctx are references to them, read  *)
(* at the moment the code reads the field.                                 *)
(***************************************************************************)
EXTENDS Naturals, Sequences, FiniteSets, TLC

\* Bounds of the model: the reconnection attempts, the callers of Close, the UDP
\* heartbeats counted, the failures the environment injects and the failures of
\* vc.udpConn.Close() in wait.
MaxReconnects == 1
NumClosers == 2
MaxUDPSequence == 1
MaxFaults == 1
MaxCloseFaults == 1

\* The callers of VoiceConnection.Speaking and the calls each of them makes; the
\* payloads the gateway delivers to Client.handleEvent.
NumSpeakers == 2
MaxSpeakingCalls == 2
MaxEvents == 3

\* The same bounds in the scenario of RaceSpec.
MaxRaceReconnects == 2
MaxRaceFaults == 2
MaxRaceCloseFaults == 2

\* Opcodes of the voice gateway, as connect names them in its errors.
voiceOpcodeHello == 8
voiceOpcodeReady == 2
voiceOpcodeSessionDescription == 4

Gens == 0..MaxRaceReconnects
NoSock == MaxRaceReconnects + 1
Closers == 1..NumClosers
NoCloser == 0
\* The SSRC and the secret key the voice server assigns to the session of handshake g.
ServerSSRC(g) == g + 1
ServerKey(g) == g + 1
InboundOpcodes == {voiceOpcodeHello, voiceOpcodeReady, voiceOpcodeSessionDescription}
Tasks == {"listener", "heartbeat", "udpHeartbeat", "opusReceiver", "opusSender"}
ReportingTasks == {"listener", "heartbeat", "udpHeartbeat"}

\* The steps of a handshake, in the order connect performs them.
HandshakeOrder ==
  << "wsOpen", "hello", "identify", "hbStart", "ready", "udpOpen", "discovery",
     "udpHbStart", "selectProtocol", "sessionDescription", "opusStart",
     "opusReady", "speakingOn", "silenceFrame", "speakingOff" >>

\* Positions of connect at which the deferred close of the UDP socket is registered.
AfterUDPDial ==
  { "discovery", "selectProtocol", "waitSD", "waitOpus", "speakingOn", "silenceFrame", "speakingOff", "markConnected" }

VARIABLES
  connected, connecting, reconnecting,  \* the atomic flags of the Connection
  conn, udpConn,                        \* vc.conn, vc.udpConn: a socket or NoSock
  chans,                                \* the channels vc.stop, vc.payloads, vc.error, vc.ctx refer to
  wsState, udpState,                    \* per socket: "unopened", "open", "closed"
  wsCloses, udpCloses,                  \* per socket: number of Close calls made on it
  stopCloses,                           \* per stop channel: number of close(vc.stop) executed on it
  stopBy,                               \* per stop channel: who closed it first
  payloadsClosed,                       \* per payloads channel: closed
  ctxCancelled,                         \* per context: cancelled
  recvCloses,                           \* number of close(vc.Recv) executed
  ssrc, secret, udpHeartbeatSequence,   \* vc.ssrc, vc.secret (0: unset), vc.udpHeartbeatSequence
  wg,                                   \* vc.wg counter
  task, taskCh,                         \* subordinate goroutines started by each handshake
  audioSent,                            \* per handshake: its opusSender wrote an audio packet
  hsPc, hsErr, hsRet, hsGot,            \* connect: position, local err, result, opcode refused
  hsCh,                                 \* connect: the payloads channel it is receiving from
  steps,                                \* connect: the steps performed so far
  waitPc, waitErr, waitCh, waitBy,      \* wait: position, local err, channels selected on, wake-up cause
  waitConn,                             \* wait: what isConnected() answered in onError
  attempt,                              \* reconnectWithBackoff run by wait g: the handshake it runs
  mu, closePc, closeDid,                \* vc.mu holder, Close callers
  closeAfter,                           \* a Close call began after another Close had returned
  panicked,                             \* the process died of a runtime panic
  faults, closeFaults,                  \* failures the environment may still inject
  speaking, voiceSSRC,                  \* VoiceConnection: vc.speaking (0 or 1), vc.ssrc
  spPc, spArg, spDelay, spPrev, spRet,  \* Speaking callers: position, s, delay, prev, result
  spCalls,                              \* Speaking callers: calls made so far
  spSent,                               \* the Speaking payloads sent, in order
  sequence, connectingToVoice,          \* Client: c.sequence, the connecting-to-voice flag
  evPc, evPayload, evCount,             \* handleEvent: position, its payload, payloads handled
  forwarded, dispatched,                \* payloads sent on c.voicePayloads, passed to c.dispatch
  joinPc                                \* the voice join that receives from c.voicePayloads

flagVars == << connected, connecting, reconnecting >>
sockVars == << conn, udpConn, wsState, udpState, wsCloses, udpCloses >>
chanVars == << chans, stopCloses, stopBy, payloadsClosed, ctxCancelled, recvCloses >>
keyVars == << ssrc, secret, udpHeartbeatSequence >>
taskVars == << wg, task, taskCh, audioSent >>
hsVars == << hsPc, hsErr, hsRet, hsGot, hsCh, steps >>
waitVars == << waitPc, waitErr, waitCh, waitBy, waitConn, attempt >>
closeVars == << mu, closePc, closeDid, closeAfter >>
voiceConnVars ==
  << flagVars, sockVars, chanVars, keyVars, taskVars, hsVars, waitVars, closeVars, panicked,
     faults, closeFaults >>
speakingVars == << speaking, voiceSSRC, spPc, spArg, spDelay, spPrev, spRet, spCalls, spSent >>
gatewayVars ==
  << sequence, connectingToVoice, evPc, evPayload, evCount, forwarded, dispatched, joinPc >>
apiVars == << speakingVars, gatewayVars >>
vars == << voiceConnVars, apiVars >>

\* State after Connect built the Connection, before it calls connect, in a run
\* with at most r reconnection attempts, f injected failures and cf failures
\* of vc.udpConn.Close() in wait.
InitWith(r, f, cf) ==
  /\ connected = FALSE
  /\ connecting = FALSE
  /\ reconnecting = FALSE
  /\ conn = NoSock
  /\ udpConn = NoSock
  /\ chans = 0
  /\ wsState = [g \in Gens |-> "unopened"]
  /\ udpState = [g \in Gens |-> "unopened"]
  /\ wsCloses = [g \in Gens |-> 0]
  /\ udpCloses = [g \in Gens |-> 0]
  /\ stopCloses = [g \in Gens |-> 0]
  /\ stopBy = [g \in Gens |-> "none"]
  /\ payloadsClosed = [g \in Gens |-> FALSE]
  /\ ctxCancelled = [g \in Gens |-> FALSE]
  /\ recvCloses = 0
  /\ ssrc = 0
  /\ secret = 0
  /\ udpHeartbeatSequence = 0
  /\ wg = 0
  /\ task = [g \in Gens |-> [t \in Tasks |-> "none"]]
  /\ taskCh = [g \in Gens |-> [t \in Tasks |-> 0]]
  /\ audioSent = [g \in Gens |-> FALSE]
  /\ hsPc = [g \in Gens |-> IF g = 0 THEN "start" ELSE IF g <= r THEN "none" ELSE "unused"]
  /\ hsErr = [g \in Gens |-> FALSE]
  /\ hsRet = [g \in Gens |-> "pending"]
  /\ hsGot = [g \in Gens |-> 0]
  /\ hsCh = [g \in Gens |-> 0]
  /\ steps = [g \in Gens |-> << >>]
  /\ waitPc = [g \in Gens |-> "none"]
  /\ waitErr = [g \in Gens |-> FALSE]
  /\ waitCh = [g \in Gens |-> 0]
  /\ waitBy = [g \in Gens |-> "none"]
  /\ waitConn = [g \in Gens |-> FALSE]
  /\ attempt = [g \in Gens |-> NoSock]
  /\ mu = NoCloser
  /\ closePc = [c \in Closers |-> "idle"]
  /\ closeDid = [c \in Closers |-> "none"]
  /\ closeAfter = [c \in Closers |-> FALSE]
  /\ panicked = FALSE
  /\ faults = f
  /\ closeFaults = cf

Speakers == 1..NumSpeakers

\* The gateway opcodes and event types Client.handleEvent tells apart.
gatewayOpcodeDispatch == "Dispatch"
gatewayOpcodeHeartbeat == "Heartbeat"
eventVoiceStateUpdate == "VOICE_STATE_UPDATE"
eventVoiceServerUpdate == "VOICE_SERVER_UPDATE"
GatewayOpcodes == {gatewayOpcodeDispatch, gatewayOpcodeHeartbeat}
EventTypes == {eventVoiceStateUpdate, eventVoiceServerUpdate, "MESSAGE_CREATE"}
NoPayload == [op |-> "", t |-> "", s |-> 0]

\* A VoiceConnection with SSRC x on which Speaking has not been called.
SpeakingIdle(x) ==
  /\ speaking = 0
  /\ voiceSSRC = x
  /\ spPc = [k \in Speakers |-> "idle"]
  /\ spArg = [k \in Speakers |-> FALSE]
  /\ spDelay = [k \in Speakers |-> 0]
  /\ spPrev = [k \in Speakers |-> 0]
  /\ spRet = [k \in Speakers |-> "none"]
  /\ spCalls = [k \in Speakers |-> 0]
  /\ spSent = << >>

\* A Client that has received no payload and joins no voice channel.
GatewayIdle ==
  /\ sequence = 0
  /\ connectingToVoice = FALSE
  /\ evPc = "idle"
  /\ evPayload = NoPayload
  /\ evCount = 0
  /\ forwarded = << >>
  /\ dispatched = << >>
  /\ joinPc = "idle"

Init ==
  /\ InitWith(MaxReconnects, MaxFaults, MaxCloseFaults)
  /\ SpeakingIdle(ServerSSRC(0))
  /\ GatewayIdle


(***************************************************************************)
(* Helpers: sockets, channels, payload delivery.                           *)
(***************************************************************************)

\* sendPayload succeeds only on an open websocket.
CanSend == conn # NoSock /\ wsState[conn] = "open"

\* The UDP socket vc.udpConn can be read and written.
UDPUsable == udpConn # NoSock /\ udpState[udpConn] = "open"

\* A listener publishes on the payloads channel connect g is receiving from.
PayloadAvailable(g) ==
  /\ ~payloadsClosed[hsCh[g]]
  /\ \E h \in Gens :
       /\ task[h]["listener"] = "running"
       /\ taskCh[h]["listener"] = hsCh[g]
       /\ wsState[h] = "open"

\* One more close of a socket or channel; the count stops at 2 (closed again).
Bump(n) == IF n < 2 THEN n + 1 ELSE n

\* The environment makes an operation fail (a network failure, a payload the
\* server should not send): a bounded number of times in one behaviour.  A
\* failure that follows from the state (a send on a closed socket) is not
\* counted.  The failures of vc.udpConn.Close() in wait are counted apart, by
\* closeFaults.
Inject(injected) ==
  /\ injected => faults > 0
  /\ faults' = IF injected THEN faults - 1 ELSE faults
  /\ UNCHANGED closeFaults

\* wg.Done of a goroutine; opusReceiver accounts for the goroutine it starts.
Weight(t) == IF t = "opusReceiver" THEN 2 ELSE 1

\* What a returning connect leaves untouched, apart from vc.udpConn.
failKeeps ==
  << hsCh, conn, chans, payloadsClosed, recvCloses, reconnecting, taskVars, waitVars,
     closeVars >>

\* connect moves on to position pc, having performed the steps done, in order;
\* where pc is a receive from vc.payloads, it blocks on the channel the field
\* holds now.
Advance(g, pc, done) ==
  /\ hsPc' = [hsPc EXCEPT ![g] = pc]
  /\ steps' = [steps EXCEPT ![g] = @ \o done]
  /\ hsCh' = [hsCh EXCEPT ![g] = chans]
  /\ UNCHANGED << hsErr, hsRet, hsGot >>

\* connect returns an error.  e is the value of its local variable err at the
\* return: the deferred functions close the UDP socket, close the websocket,
\* clear connected, close vc.stop and cancel the context only when err is set.
connectFail(g, e, got) ==
  /\ hsPc' = [hsPc EXCEPT ![g] = "returned"]
  /\ hsErr' = [hsErr EXCEPT ![g] = e]
  /\ hsRet' = [hsRet EXCEPT ![g] = "error"]
  /\ hsGot' = [hsGot EXCEPT ![g] = got]
  /\ connecting' = FALSE
  /\ IF e /\ hsPc[g] \in AfterUDPDial /\ udpConn # NoSock
       THEN /\ udpState' = [udpState EXCEPT ![udpConn] = "closed"]
            /\ udpCloses' = [udpCloses EXCEPT ![udpConn] = Bump(@)]
       ELSE UNCHANGED << udpState, udpCloses >>
  /\ IF e /\ conn # NoSock
       THEN /\ wsState' = [wsState EXCEPT ![conn] = "closed"]
            /\ wsCloses' = [wsCloses EXCEPT ![conn] = Bump(@)]
            /\ connected' = FALSE
            /\ stopCloses' = [stopCloses EXCEPT ![chans] = Bump(@)]
            /\ stopBy' = [stopBy EXCEPT ![chans] = IF @ = "none" THEN "connect" ELSE @]
            /\ panicked' = (stopCloses[chans] >= 1)
            /\ ctxCancelled' = [ctxCancelled EXCEPT ![chans] = TRUE]
       ELSE /\ panicked' = (e /\ conn = NoSock)
            /\ UNCHANGED << wsState, wsCloses, connected, stopCloses, stopBy, ctxCancelled >>

(***************************************************************************)
(* Connection.connect, step by step.                                       *)
(***************************************************************************)

\* connect_Dial with the UDP socket dialled together with the websocket.
connect_Dial_openUDP(g, ok) ==
  /\ ~panicked
  /\ UNCHANGED apiVars
  /\ hsPc[g] = "start"
  /\ Inject(~ok)
  /\ IF ok
       THEN /\ connecting' = TRUE
            /\ conn' = g
            /\ wsState' = [wsState EXCEPT ![g] = "open"]
            /\ udpConn' = g
            /\ udpState' = [udpState EXCEPT ![g] = "open"]
            /\ wg' = wg + 2
            /\ task' = [task EXCEPT ![g]["listener"] = "running"]
            /\ taskCh' = [taskCh EXCEPT ![g]["listener"] = chans]
            /\ waitPc' = [waitPc EXCEPT ![g] = "select"]
            /\ waitCh' = [waitCh EXCEPT ![g] = chans]
            /\ Advance(g, "waitHello", << "wsOpen" >>)
            /\ UNCHANGED << connected, reconnecting, wsCloses, udpCloses, chanVars, keyVars,
                            audioSent, waitErr, waitBy, waitConn, attempt, closeVars, panicked >>
       ELSE /\ connecting' = FALSE
            /\ conn' = NoSock
            /\ hsPc' = [hsPc EXCEPT ![g] = "returned"]
            /\ hsErr' = [hsErr EXCEPT ![g] = TRUE]
            /\ hsRet' = [hsRet EXCEPT ![g] = "error"]
            /\ UNCHANGED << connected, reconnecting, udpConn, wsState, udpState, wsCloses,
                            udpCloses, chanVars, keyVars, taskVars, hsGot, hsCh, steps,
                            waitVars, closeVars, panicked >>

\* connecting.Store(true); websocket.Dial; on success go listenAndHandlePayloads, go wait.
connect_Dial(g, ok) ==
  /\ ~panicked
  /\ UNCHANGED apiVars
  /\ hsPc[g] = "start"
  /\ Inject(~ok)
  /\ IF ok
       THEN /\ connecting' = TRUE
            /\ conn' = g
            /\ wsState' = [wsState EXCEPT ![g] = "open"]
            /\ wg' = wg + 2
            /\ task' = [task EXCEPT ![g]["listener"] = "running"]
            /\ taskCh' = [taskCh EXCEPT ![g]["listener"] = chans]
            /\ waitPc' = [waitPc EXCEPT ![g] = "select"]
            /\ waitCh' = [waitCh EXCEPT ![g] = chans]
            /\ Advance(g, "waitHello", << "wsOpen" >>)
            /\ UNCHANGED << connected, reconnecting, udpConn, udpState, wsCloses, udpCloses,
                            chanVars, keyVars, audioSent, waitErr, waitBy, waitConn, attempt,
                            closeVars, panicked >>
       ELSE /\ connecting' = FALSE
            /\ conn' = NoSock
            /\ hsPc' = [hsPc EXCEPT ![g] = "returned"]
            /\ hsErr' = [hsErr EXCEPT ![g] = TRUE]
            /\ hsRet' = [hsRet EXCEPT ![g] = "error"]
            /\ UNCHANGED << connected, reconnecting, udpConn, wsState, udpState, wsCloses,
                            udpCloses, chanVars, keyVars, taskVars, hsGot, hsCh, steps, waitVars,
                            closeVars, panicked >>

\* p := <-vc.payloads on a channel wait has closed: p is nil and p.Op panics.
connect_RecvClosed(g) ==
  /\ ~panicked
  /\ UNCHANGED apiVars
  /\ UNCHANGED << faults, closeFaults >>
  /\ hsPc[g] \in {"waitHello", "waitReady", "waitSD"}
  /\ payloadsClosed[hsCh[g]]
  /\ panicked' = TRUE
  /\ hsRet' = [hsRet EXCEPT ![g] = "panic"]
  /\ UNCHANGED << flagVars, sockVars, chanVars, keyVars, taskVars, hsPc, hsErr, hsGot, hsCh,
                  steps, waitVars, closeVars >>

\* connect_Hello with the heartbeat goroutine started as soon as Hello is
\* decoded, before Identify is sent.
connect_Hello_heartbeatFirst(g, op, outcome) ==
  /\ ~panicked
  /\ UNCHANGED apiVars
  /\ hsPc[g] = "waitHello"
  /\ PayloadAvailable(g)
  /\ Inject(op # voiceOpcodeHello \/ outcome = "badData" \/ (outcome = "sendFailed" /\ CanSend))
  /\ IF op # voiceOpcodeHello
       THEN connectFail(g, hsErr[g], op) /\ UNCHANGED << failKeeps, steps, keyVars, udpConn >>
       ELSE IF outcome = "badData"
         THEN connectFail(g, TRUE, 0) /\ UNCHANGED << failKeeps, steps, keyVars, udpConn >>
         ELSE /\ wg' = wg + 1
              /\ task' = [task EXCEPT ![g]["heartbeat"] = "running"]
              /\ taskCh' = [taskCh EXCEPT ![g]["heartbeat"] = chans]
              /\ IF outcome = "sendFailed" \/ ~CanSend
                   THEN /\ connectFail(g, TRUE, 0)
                        /\ steps' = [steps EXCEPT ![g] = @ \o << "hello", "hbStart" >>]
                        /\ UNCHANGED << hsCh, conn, chans, payloadsClosed, recvCloses,
                                        reconnecting, audioSent, waitVars, closeVars,
                                        keyVars, udpConn >>
                   ELSE /\ Advance(g, "waitReady", << "hello", "hbStart", "identify" >>)
                        /\ UNCHANGED << flagVars, sockVars, chanVars, keyVars, audioSent,
                                        waitVars, closeVars, panicked >>

\* p := <-vc.payloads; the Hello check; json.Unmarshal of the Hello data;
\* vc.sendPayload(ctx, voiceOpcodeIdentify, i); vc.wg.Add(1); go vc.heartbeat(...).
\* outcome: "ok", "badData" (Unmarshal fails), "sendFailed".
connect_Hello(g, op, outcome) ==
  /\ ~panicked
  /\ UNCHANGED apiVars
  /\ hsPc[g] = "waitHello"
  /\ PayloadAvailable(g)
  /\ Inject(op # voiceOpcodeHello \/ outcome = "badData" \/ (outcome = "sendFailed" /\ CanSend))
  /\ IF op # voiceOpcodeHello
       THEN connectFail(g, hsErr[g], op) /\ UNCHANGED << failKeeps, steps, keyVars, udpConn >>
       ELSE IF outcome = "badData"
         THEN connectFail(g, TRUE, 0) /\ UNCHANGED << failKeeps, steps, keyVars, udpConn >>
         ELSE IF outcome = "sendFailed" \/ ~CanSend
           THEN /\ connectFail(g, TRUE, 0)
                /\ steps' = [steps EXCEPT ![g] = Append(@, "hello")]
                /\ UNCHANGED << failKeeps, keyVars, udpConn >>
           ELSE /\ wg' = wg + 1
                /\ task' = [task EXCEPT ![g]["heartbeat"] = "running"]
                /\ taskCh' = [taskCh EXCEPT ![g]["heartbeat"] = chans]
                /\ Advance(g, "waitReady", << "hello", "identify", "hbStart" >>)
                /\ UNCHANGED << flagVars, sockVars, chanVars, keyVars, audioSent, waitVars,
                                closeVars, panicked >>

\* connect_Ready with a payload that is not Ready set aside for a later step
\* instead of ending the handshake.
connect_Ready_keepsUnexpected(g, op, outcome) ==
  /\ ~panicked
  /\ UNCHANGED apiVars
  /\ hsPc[g] = "waitReady"
  /\ PayloadAvailable(g)
  /\ Inject(op # voiceOpcodeReady \/ outcome # "ok")
  /\ IF op # voiceOpcodeReady
       THEN /\ hsGot' = [hsGot EXCEPT ![g] = op]
            /\ UNCHANGED << flagVars, sockVars, chanVars, keyVars, taskVars, hsPc, hsErr,
                            hsRet, hsCh, steps, waitVars, closeVars, panicked >>
       ELSE IF outcome = "badData"
         THEN connectFail(g, TRUE, 0) /\ UNCHANGED << failKeeps, steps, keyVars, udpConn >>
         ELSE IF outcome \in {"resolveFailed", "dialFailed"}
           THEN /\ ssrc' = ServerSSRC(g)
                /\ udpConn' = IF outcome = "dialFailed" THEN NoSock ELSE udpConn
                /\ connectFail(g, TRUE, 0)
                /\ steps' = [steps EXCEPT ![g] = Append(@, "ready")]
                /\ UNCHANGED << failKeeps, secret, udpHeartbeatSequence >>
           ELSE /\ ssrc' = ServerSSRC(g)
                /\ udpConn' = g
                /\ udpState' = [udpState EXCEPT ![g] = "open"]
                /\ Advance(g, "discovery", << "ready", "udpOpen" >>)
                /\ UNCHANGED << flagVars, conn, wsState, wsCloses, udpCloses, chanVars,
                                secret, udpHeartbeatSequence, taskVars, waitVars, closeVars,
                                panicked >>

\* p = <-vc.payloads; the Ready check; json.Unmarshal; vc.ssrc = vr.SSRC;
\* net.ResolveUDPAddr; net.DialUDP; the deferred close of the UDP socket.
\* outcome: "ok", "badData" (Unmarshal fails), "resolveFailed", "dialFailed".
connect_Ready(g, op, outcome) ==
  /\ ~panicked
  /\ UNCHANGED apiVars
  /\ hsPc[g] = "waitReady"
  /\ PayloadAvailable(g)
  /\ Inject(op # voiceOpcodeReady \/ outcome # "ok")
  /\ IF op # voiceOpcodeReady
       THEN connectFail(g, hsErr[g], op) /\ UNCHANGED << failKeeps, steps, keyVars, udpConn >>
       ELSE IF outcome = "badData"
         THEN connectFail(g, TRUE, 0) /\ UNCHANGED << failKeeps, steps, keyVars, udpConn >>
         ELSE IF outcome \in {"resolveFailed", "dialFailed"}
           THEN /\ ssrc' = ServerSSRC(g)
                /\ udpConn' = IF outcome = "dialFailed" THEN NoSock ELSE udpConn
                /\ connectFail(g, TRUE, 0)
                /\ steps' = [steps EXCEPT ![g] = Append(@, "ready")]
                /\ UNCHANGED << failKeeps, secret, udpHeartbeatSequence >>
           ELSE /\ ssrc' = ServerSSRC(g)
                /\ udpConn' = g
                /\ udpState' = [udpState EXCEPT ![g] = "open"]
                /\ Advance(g, "discovery", << "ready", "udpOpen" >>)
                /\ UNCHANGED << flagVars, conn, wsState, wsCloses, udpCloses, chanVars,
                                secret, udpHeartbeatSequence, taskVars, waitVars, closeVars,
                                panicked >>

\* connect_Discovery with the UDP heartbeat goroutine started before
\* ipDiscovery is called.
connect_Discovery_heartbeatFirst(g, ok) ==
  /\ ~panicked
  /\ UNCHANGED apiVars
  /\ hsPc[g] = "discovery"
  /\ ok => UDPUsable
  /\ Inject(~ok /\ UDPUsable)
  /\ wg' = wg + 1
  /\ task' = [task EXCEPT ![g]["udpHeartbeat"] = "running"]
  /\ taskCh' = [taskCh EXCEPT ![g]["udpHeartbeat"] = chans]
  /\ IF ~ok
       THEN /\ connectFail(g, TRUE, 0)
            /\ steps' = [steps EXCEPT ![g] = Append(@, "udpHbStart")]
            /\ UNCHANGED << hsCh, conn, chans, payloadsClosed, recvCloses, reconnecting,
                            audioSent, waitVars, closeVars, keyVars, udpConn >>
       ELSE /\ Advance(g, "selectProtocol", << "udpHbStart", "discovery" >>)
            /\ UNCHANGED << flagVars, sockVars, chanVars, keyVars, audioSent, waitVars,
                            closeVars, panicked >>

\* ipDiscovery(vc.udpConn, vc.ssrc); then vc.wg.Add(1); go vc.udpHeartbeat(5 * time.Second).
connect_Discovery(g, ok) ==
  /\ ~panicked
  /\ UNCHANGED apiVars
  /\ hsPc[g] = "discovery"
  /\ ok => UDPUsable
  /\ Inject(~ok /\ UDPUsable)
  /\ IF ~ok
       THEN connectFail(g, TRUE, 0) /\ UNCHANGED << failKeeps, steps, keyVars, udpConn >>
       ELSE /\ wg' = wg + 1
            /\ task' = [task EXCEPT ![g]["udpHeartbeat"] = "running"]
            /\ taskCh' = [taskCh EXCEPT ![g]["udpHeartbeat"] = chans]
            /\ Advance(g, "selectProtocol", << "discovery", "udpHbStart" >>)
            /\ UNCHANGED << flagVars, sockVars, chanVars, keyVars, audioSent, waitVars,
                            closeVars, panicked >>

\* connect_SelectProtocol with the audio goroutines started right after the
\* send, before the Session Description is received.
connect_SelectProtocol_startsOpus(g, ok) ==
  /\ ~panicked
  /\ UNCHANGED apiVars
  /\ hsPc[g] = "selectProtocol"
  /\ ok => CanSend
  /\ Inject(~ok /\ CanSend)
  /\ IF ~ok
       THEN connectFail(g, TRUE, 0) /\ UNCHANGED << failKeeps, steps, keyVars, udpConn >>
       ELSE /\ wg' = wg + 3
            /\ task' = [task EXCEPT ![g]["opusReceiver"] = "starting",
                                    ![g]["opusSender"] = "starting"]
            /\ taskCh' = [taskCh EXCEPT ![g]["opusReceiver"] = chans,
                                        ![g]["opusSender"] = chans]
            /\ Advance(g, "waitSD", << "selectProtocol" >>)
            /\ UNCHANGED << flagVars, sockVars, chanVars, keyVars, audioSent, waitVars,
                            closeVars, panicked >>

\* vc.sendPayload(ctx, voiceOpcodeSelectProtocol, sp).
connect_SelectProtocol(g, ok) ==
  /\ ~panicked
  /\ UNCHANGED apiVars
  /\ hsPc[g] = "selectProtocol"
  /\ ok => CanSend
  /\ Inject(~ok /\ CanSend)
  /\ IF ~ok
       THEN connectFail(g, TRUE, 0) /\ UNCHANGED << failKeeps, steps, keyVars, udpConn >>
       ELSE /\ Advance(g, "waitSD", << "selectProtocol" >>)
            /\ UNCHANGED << flagVars, sockVars, chanVars, keyVars, taskVars, waitVars,
                            closeVars, panicked >>

\* connect_SessionDescription with the return missing from the opcode check:
\* the refused opcode is reported and connect carries on.
connect_SessionDescription_noReturn(g, op, ok) ==
  /\ ~panicked
  /\ UNCHANGED apiVars
  /\ hsPc[g] = "waitSD"
  /\ PayloadAvailable(g)
  /\ Inject(op # voiceOpcodeSessionDescription \/ ~ok)
  /\ IF ~ok
       THEN connectFail(g, TRUE, 0) /\ UNCHANGED << failKeeps, steps, keyVars, udpConn >>
       ELSE /\ secret' = ServerKey(g)
            /\ wg' = wg + 3
            /\ task' = [task EXCEPT ![g]["opusReceiver"] = "starting",
                                    ![g]["opusSender"] = "starting"]
            /\ taskCh' = [taskCh EXCEPT ![g]["opusReceiver"] = chans,
                                        ![g]["opusSender"] = chans]
            /\ hsPc' = [hsPc EXCEPT ![g] = "waitOpus"]
            /\ steps' = [steps EXCEPT ![g] = @ \o << "sessionDescription", "opusStart" >>]
            /\ hsCh' = [hsCh EXCEPT ![g] = chans]
            /\ hsGot' = [hsGot EXCEPT
                           ![g] = IF op # voiceOpcodeSessionDescription THEN op ELSE @]
            /\ UNCHANGED << hsErr, hsRet, flagVars, sockVars, chanVars, ssrc,
                            udpHeartbeatSequence, audioSent, waitVars, closeVars, panicked >>

\* p = <-vc.payloads; the Session Description check; json.Unmarshal; copy of the
\* key; then vc.wg.Add(3); vc.opusReadinessWG.Add(2); go vc.opusReceiver(); go vc.opusSender().
connect_SessionDescription(g, op, ok) ==
  /\ ~panicked
  /\ UNCHANGED apiVars
  /\ hsPc[g] = "waitSD"
  /\ PayloadAvailable(g)
  /\ Inject(op # voiceOpcodeSessionDescription \/ ~ok)
  /\ IF op # voiceOpcodeSessionDescription
       THEN connectFail(g, hsErr[g], op) /\ UNCHANGED << failKeeps, steps, keyVars, udpConn >>
       ELSE IF ~ok
         THEN connectFail(g, TRUE, 0) /\ UNCHANGED << failKeeps, steps, keyVars, udpConn >>
         ELSE /\ secret' = ServerKey(g)
              /\ wg' = wg + 3
              /\ task' = [task EXCEPT ![g]["opusReceiver"] = "starting",
                                      ![g]["opusSender"] = "starting"]
              /\ taskCh' = [taskCh EXCEPT ![g]["opusReceiver"] = chans,
                                          ![g]["opusSender"] = chans]
              /\ Advance(g, "waitOpus", << "sessionDescription", "opusStart" >>)
              /\ UNCHANGED << flagVars, sockVars, chanVars, ssrc, udpHeartbeatSequence,
                              audioSent, waitVars, closeVars, panicked >>

\* connect_OpusReady with the call of sendSilenceFrame left out.
connect_OpusReady_skipSilence(g) ==
  /\ ~panicked
  /\ UNCHANGED apiVars
  /\ UNCHANGED << faults, closeFaults >>
  /\ hsPc[g] = "waitOpus"
  /\ \A h \in Gens : \A t \in {"opusReceiver", "opusSender"} : task[h][t] # "starting"
  /\ Advance(g, "markConnected", << "opusReady" >>)
  /\ UNCHANGED << flagVars, sockVars, chanVars, keyVars, taskVars, waitVars, closeVars,
                  panicked >>

\* vc.opusReadinessWG.Wait().
connect_OpusReady(g) ==
  /\ ~panicked
  /\ UNCHANGED apiVars
  /\ UNCHANGED << faults, closeFaults >>
  /\ hsPc[g] = "waitOpus"
  /\ \A h \in Gens : \A t \in {"opusReceiver", "opusSender"} : task[h][t] # "starting"
  /\ Advance(g, "speakingOn", << "opusReady" >>)
  /\ UNCHANGED << flagVars, sockVars, chanVars, keyVars, taskVars, waitVars, closeVars,
                  panicked >>

\* sendSilenceFrame_On with the error of SetSpeakingMode dropped: the silence
\* frame is sent whether or not the speaking mode was switched on.
sendSilenceFrame_On_ignoresError(g, ok) ==
  /\ ~panicked
  /\ UNCHANGED apiVars
  /\ hsPc[g] = "speakingOn"
  /\ ok => CanSend
  /\ Inject(~ok /\ CanSend)
  /\ Advance(g, "silenceFrame", IF ok THEN << "speakingOn" >> ELSE << >>)
  /\ UNCHANGED << flagVars, sockVars, chanVars, keyVars, taskVars, waitVars, closeVars,
                  panicked >>

\* sendSilenceFrame: vc.SetSpeakingMode(SpeakingModeMicrophone).
sendSilenceFrame_On(g, ok) ==
  /\ ~panicked
  /\ UNCHANGED apiVars
  /\ hsPc[g] = "speakingOn"
  /\ ok => CanSend
  /\ Inject(~ok /\ CanSend)
  /\ IF ~ok
       THEN connectFail(g, TRUE, 0) /\ UNCHANGED << failKeeps, steps, keyVars, udpConn >>
       ELSE /\ Advance(g, "silenceFrame", << "speakingOn" >>)
            /\ UNCHANGED << flagVars, sockVars, chanVars, keyVars, taskVars, waitVars,
                            closeVars, panicked >>

\* sendSilenceFrame: vc.Send <- SilenceFrame, received by a running opusSender h,
\* which encrypts the frame and writes the packet to the UDP socket.
sendSilenceFrame_Send(g, h) ==
  /\ ~panicked
  /\ UNCHANGED apiVars
  /\ UNCHANGED << faults, closeFaults >>
  /\ hsPc[g] = "silenceFrame"
  /\ task[h]["opusSender"] = "running"
  /\ audioSent' = [audioSent EXCEPT ![h] = TRUE]
  /\ Advance(g, "speakingOff", << "silenceFrame" >>)
  /\ UNCHANGED << flagVars, sockVars, chanVars, keyVars, wg, task, taskCh, waitVars,
                  closeVars, panicked >>

\* sendSilenceFrame: vc.SetSpeakingMode(SpeakingModeOff).
sendSilenceFrame_Off(g, ok) ==
  /\ ~panicked
  /\ UNCHANGED apiVars
  /\ hsPc[g] = "speakingOff"
  /\ ok => CanSend
  /\ Inject(~ok /\ CanSend)
  /\ IF ~ok
       THEN connectFail(g, TRUE, 0) /\ UNCHANGED << failKeeps, steps, keyVars, udpConn >>
       ELSE /\ Advance(g, "markConnected", << "speakingOff" >>)
            /\ UNCHANGED << flagVars, sockVars, chanVars, keyVars, taskVars, waitVars,
                            closeVars, panicked >>

\* vc.connected.Store(true); return nil (and the deferred connecting.Store(false)).
connect_MarkConnected(g) ==
  /\ ~panicked
  /\ UNCHANGED apiVars
  /\ UNCHANGED << faults, closeFaults >>
  /\ hsPc[g] = "markConnected"
  /\ connected' = TRUE
  /\ connecting' = FALSE
  /\ hsPc' = [hsPc EXCEPT ![g] = "returned"]
  /\ hsRet' = [hsRet EXCEPT ![g] = "nil"]
  /\ steps' = [steps EXCEPT ![g] = Append(@, "connected")]
  /\ UNCHANGED << reconnecting, sockVars, chanVars, keyVars, taskVars, hsErr, hsGot, hsCh,
                  waitVars, closeVars, panicked >>


(***************************************************************************)
(* The subordinate goroutines.                                             *)
(***************************************************************************)

\* opusReceiver / opusSender report readiness: vc.opusReadinessWG.Done().
task_Ready(g, t) ==
  /\ ~panicked
  /\ UNCHANGED apiVars
  /\ UNCHANGED << faults, closeFaults >>
  /\ task[g][t] = "starting"
  /\ task' = [task EXCEPT ![g][t] = "running"]
  /\ UNCHANGED << flagVars, sockVars, chanVars, keyVars, wg, taskCh, audioSent, hsVars,
                  waitVars, closeVars, panicked >>

\* The goroutines of handshake g that run on the stop channel c.
StoppedBy(g, c) == { t \in Tasks : task[g][t] = "running" /\ taskCh[g][t] = c }

\* wg.Done of every goroutine in the set ts.
RECURSIVE TotalWeight(_)
TotalWeight(ts) ==
  IF ts = {} THEN 0
  ELSE LET t == CHOOSE x \in ts : TRUE IN Weight(t) + TotalWeight(ts \ {t})

\* The running goroutines of handshake g observe their closed stop channel c
\* and return: vc.wg.Done() each.  They return in one step: the order of
\* their returns shows only in the wg counter.
task_Stop(g, c) ==
  /\ ~panicked
  /\ UNCHANGED apiVars
  /\ UNCHANGED << faults, closeFaults >>
  /\ stopCloses[c] >= 1
  /\ StoppedBy(g, c) # {}
  /\ task' = [task EXCEPT ![g] = [t \in Tasks |-> IF t \in StoppedBy(g, c) THEN "done" ELSE @[t]]]
  /\ wg' = wg - TotalWeight(StoppedBy(g, c))
  /\ UNCHANGED << flagVars, sockVars, chanVars, keyVars, taskCh, audioSent, hsVars,
                  waitVars, closeVars, panicked >>

\* udpHeartbeat sends one heartbeat: vc.udpHeartbeatSequence.Inc().
udpHeartbeat_Tick(g) ==
  /\ ~panicked
  /\ UNCHANGED apiVars
  /\ UNCHANGED << faults, closeFaults >>
  /\ task[g]["udpHeartbeat"] = "running"
  /\ udpHeartbeatSequence < MaxUDPSequence
  /\ udpHeartbeatSequence' = udpHeartbeatSequence + 1
  /\ UNCHANGED << flagVars, sockVars, chanVars, ssrc, secret, taskVars, hsVars, waitVars,
                  closeVars, panicked >>

(***************************************************************************)
(* Connection.wait, onError, onDisconnect.                                 *)
(***************************************************************************)

\* shouldReconnect(err): an error asks for a reconnection.
shouldReconnect(err) == err

\* vc.isReconnecting().
isReconnecting == reconnecting

\* vc.isConnected().
isConnected == connected

\* onError(err): close the websocket; close vc.stop unless not connected.
onError ==
  IF conn = NoSock
    THEN /\ panicked' = TRUE
         /\ UNCHANGED << wsState, wsCloses, stopCloses, stopBy >>
    ELSE /\ wsState' = [wsState EXCEPT ![conn] = "closed"]
         /\ wsCloses' = [wsCloses EXCEPT ![conn] = Bump(@)]
         /\ IF ~isConnected
              THEN UNCHANGED << stopCloses, stopBy, panicked >>
              ELSE /\ stopCloses' = [stopCloses EXCEPT ![chans] = Bump(@)]
                   /\ stopBy' = [stopBy EXCEPT ![chans] = IF @ = "none" THEN "onError" ELSE @]
                   /\ panicked' = (stopCloses[chans] >= 1)

\* onDisconnect(): close the websocket, reset the UDP heartbeat sequence.
onDisconnect ==
  IF conn = NoSock
    THEN /\ panicked' = TRUE
         /\ UNCHANGED << wsState, wsCloses, udpHeartbeatSequence >>
    ELSE /\ wsState' = [wsState EXCEPT ![conn] = "closed"]
         /\ wsCloses' = [wsCloses EXCEPT ![conn] = Bump(@)]
         /\ udpHeartbeatSequence' = 0
         /\ UNCHANGED panicked

\* The socket goroutine t of handshake h works on is closed: its next read or
\* write fails.
Broken(h, t) ==
  IF t = "udpHeartbeat" THEN udpState[h] = "closed" ELSE wsState[h] = "closed"

\* wait: select receives the fatal error goroutine t of handshake h sends on
\* vc.error, and that goroutine returns; onError(err).
wait_Error(w, h, t) ==
  /\ ~panicked
  /\ UNCHANGED apiVars
  /\ waitPc[w] = "select"
  /\ t \in ReportingTasks
  /\ task[h][t] = "running"
  /\ taskCh[h][t] = waitCh[w]
  /\ Inject(~Broken(h, t))
  /\ onError
  /\ task' = [task EXCEPT ![h][t] = "done"]
  /\ wg' = wg - Weight(t)
  /\ waitPc' = [waitPc EXCEPT ![w] = "teardown"]
  /\ waitErr' = [waitErr EXCEPT ![w] = TRUE]
  /\ waitBy' = [waitBy EXCEPT ![w] = "error"]
  /\ waitConn' = [waitConn EXCEPT ![w] = isConnected]
  /\ UNCHANGED << flagVars, conn, udpConn, udpState, udpCloses, chans, payloadsClosed,
                  ctxCancelled, recvCloses, keyVars, taskCh, audioSent, hsVars, waitCh,
                  attempt, closeVars >>

\* wait_Stop with onDisconnect clearing the SSRC along with the UDP heartbeat
\* sequence.
wait_Stop_clearsSSRC(w) ==
  /\ ~panicked
  /\ UNCHANGED apiVars
  /\ UNCHANGED << faults, closeFaults >>
  /\ waitPc[w] = "select"
  /\ stopCloses[waitCh[w]] >= 1
  /\ onDisconnect
  /\ ssrc' = 0
  /\ waitPc' = [waitPc EXCEPT ![w] = "teardown"]
  /\ waitBy' = [waitBy EXCEPT ![w] = "stop"]
  /\ UNCHANGED waitConn
  /\ UNCHANGED << flagVars, conn, udpConn, udpState, udpCloses, chanVars, secret,
                  taskVars, hsVars, waitErr, waitCh, attempt, closeVars >>

\* wait: select finds vc.stop closed; onDisconnect().
wait_Stop(w) ==
  /\ ~panicked
  /\ UNCHANGED apiVars
  /\ UNCHANGED << faults, closeFaults >>
  /\ waitPc[w] = "select"
  /\ stopCloses[waitCh[w]] >= 1
  /\ onDisconnect
  /\ waitPc' = [waitPc EXCEPT ![w] = "teardown"]
  /\ waitBy' = [waitBy EXCEPT ![w] = "stop"]
  /\ UNCHANGED waitConn
  /\ UNCHANGED << flagVars, conn, udpConn, udpState, udpCloses, chanVars, ssrc, secret,
                  taskVars, hsVars, waitErr, waitCh, attempt, closeVars >>

\* wait: close(vc.payloads); err = vc.udpConn.Close() if a UDP socket is set;
\* vc.cancel(); vc.connected.Store(false).  udpOk: closing an open UDP socket
\* succeeds (it fails a bounded number of times); closing a closed one fails.
wait_Teardown(w, udpOk) ==
  /\ ~panicked
  /\ UNCHANGED apiVars
  /\ waitPc[w] = "teardown"
  /\ ~udpOk => (~payloadsClosed[chans] /\ UDPUsable)
  /\ ~udpOk => closeFaults > 0
  /\ closeFaults' = IF udpOk THEN closeFaults ELSE closeFaults - 1
  /\ UNCHANGED faults
  /\ IF payloadsClosed[chans]
       THEN /\ panicked' = TRUE
            /\ UNCHANGED << payloadsClosed, udpState, udpCloses, waitErr, ctxCancelled,
                            connected, waitPc >>
       ELSE /\ payloadsClosed' = [payloadsClosed EXCEPT ![chans] = TRUE]
            /\ IF udpConn # NoSock
                 THEN /\ udpState' = [udpState EXCEPT ![udpConn] = "closed"]
                      /\ udpCloses' = [udpCloses EXCEPT ![udpConn] = Bump(@)]
                      /\ waitErr' = [waitErr EXCEPT
                                       ![w] = ~(udpOk /\ udpState[udpConn] = "open")]
                 ELSE UNCHANGED << udpState, udpCloses, waitErr >>
            /\ ctxCancelled' = [ctxCancelled EXCEPT ![chans] = TRUE]
            /\ connected' = FALSE
            /\ waitPc' = [waitPc EXCEPT ![w] = "decide"]
            /\ UNCHANGED panicked
  /\ UNCHANGED << connecting, reconnecting, conn, udpConn, wsState, wsCloses, chans,
                  stopCloses, stopBy, recvCloses, keyVars, taskVars, hsVars, waitCh, waitBy, waitConn,
                  attempt, closeVars >>

\* wait: if shouldReconnect(err) && !vc.isReconnecting() then reconnectWithBackoff,
\* else return (the deferred vc.wg.Done()).
wait_Decide(w) ==
  /\ ~panicked
  /\ UNCHANGED apiVars
  /\ UNCHANGED << faults, closeFaults >>
  /\ waitPc[w] = "decide"
  /\ IF shouldReconnect(waitErr[w]) /\ ~isReconnecting
       THEN /\ waitPc' = [waitPc EXCEPT ![w] = "reconnect"]
            /\ UNCHANGED wg
       ELSE /\ waitPc' = [waitPc EXCEPT ![w] = "done"]
            /\ wg' = wg - 1
  /\ UNCHANGED << flagVars, sockVars, chanVars, keyVars, task, taskCh, audioSent, hsVars,
                  waitErr, waitCh, waitBy, waitConn, attempt, closeVars, panicked >>

(***************************************************************************)
(* reconnectWithBackoff, run by wait.                                      *)
(***************************************************************************)

\* The handshakes reconnectWithBackoff may still start.
FreeGens == { g \in Gens : hsPc[g] = "none" }

\* The next handshake to start.
NextGen == CHOOSE g \in FreeGens : \A h \in FreeGens : g <= h

\* reconnectWithBackoff begins: vc.reconnecting.Store(true).
reconnectWithBackoff_Begin(w) ==
  /\ ~panicked
  /\ UNCHANGED apiVars
  /\ UNCHANGED << faults, closeFaults >>
  /\ waitPc[w] = "reconnect"
  /\ reconnecting' = TRUE
  /\ waitPc' = [waitPc EXCEPT ![w] = "backoff"]
  /\ UNCHANGED << connected, connecting, sockVars, chanVars, keyVars, taskVars, hsVars,
                  waitErr, waitCh, waitBy, waitConn, attempt, closeVars, panicked >>

\* After the backoff delay: the channels and the context are re-created and
\* connect is called again.
reconnectWithBackoff_Attempt(w) ==
  /\ ~panicked
  /\ UNCHANGED apiVars
  /\ UNCHANGED << faults, closeFaults >>
  /\ waitPc[w] = "backoff"
  /\ FreeGens # {}
  /\ chans' = NextGen
  /\ hsPc' = [hsPc EXCEPT ![NextGen] = "start"]
  /\ attempt' = [attempt EXCEPT ![w] = NextGen]
  /\ waitPc' = [waitPc EXCEPT ![w] = "connecting"]
  /\ UNCHANGED << flagVars, sockVars, stopCloses, stopBy, payloadsClosed, ctxCancelled, recvCloses,
                  keyVars, taskVars, hsErr, hsRet, hsGot, hsCh, steps, waitErr, waitCh,
                  waitBy, waitConn, closeVars, panicked >>

\* connect returned to reconnectWithBackoff: on success it clears reconnecting
\* and wait returns; on failure it backs off and tries again.
reconnectWithBackoff_Return(w) ==
  /\ ~panicked
  /\ UNCHANGED apiVars
  /\ UNCHANGED << faults, closeFaults >>
  /\ waitPc[w] = "connecting"
  /\ hsRet[attempt[w]] # "pending"
  /\ IF hsRet[attempt[w]] = "nil"
       THEN /\ reconnecting' = FALSE
            /\ waitPc' = [waitPc EXCEPT ![w] = "done"]
            /\ wg' = wg - 1
       ELSE /\ waitPc' = [waitPc EXCEPT ![w] = "backoff"]
            /\ UNCHANGED << reconnecting, wg >>
  /\ UNCHANGED << connected, connecting, sockVars, chanVars, keyVars, task, taskCh,
                  audioSent, hsVars, waitErr, waitCh, waitBy, waitConn, attempt, closeVars, panicked >>

(***************************************************************************)
(* Connection.Close, called by the application once Connect returned the   *)
(* Connection.                                                             *)
(***************************************************************************)

\* vc.mu.Lock().
Close_Lock(c) ==
  /\ ~panicked
  /\ UNCHANGED apiVars
  /\ UNCHANGED << faults, closeFaults >>
  /\ hsRet[0] = "nil"
  /\ closePc[c] = "idle"
  /\ mu = NoCloser
  /\ mu' = c
  /\ closePc' = [closePc EXCEPT ![c] = "locked"]
  /\ closeAfter' = [closeAfter EXCEPT ![c] = \E d \in Closers : closeDid[d] = "closed"]
  /\ UNCHANGED << flagVars, sockVars, chanVars, keyVars, taskVars, hsVars, waitVars,
                  closeDid, panicked >>

\* Close_Stop without the test of isConnected: vc.stop is closed whatever the
\* state of the connection.
Close_Stop_alwaysStops(c) ==
  /\ ~panicked
  /\ UNCHANGED apiVars
  /\ UNCHANGED << faults, closeFaults >>
  /\ closePc[c] = "locked"
  /\ stopCloses' = [stopCloses EXCEPT ![chans] = Bump(@)]
  /\ stopBy' = [stopBy EXCEPT ![chans] = IF @ = "none" THEN "Close" ELSE @]
  /\ panicked' = (stopCloses[chans] >= 1)
  /\ closePc' = [closePc EXCEPT ![c] = "wgWait"]
  /\ closeDid' = [closeDid EXCEPT ![c] = "stopped"]
  /\ UNCHANGED mu
  /\ UNCHANGED << flagVars, sockVars, chans, payloadsClosed, ctxCancelled, recvCloses,
                  keyVars, taskVars, hsVars, waitVars, closeAfter >>

\* if !vc.isConnected() { return }; close(vc.stop).
Close_Stop(c) ==
  /\ ~panicked
  /\ UNCHANGED apiVars
  /\ UNCHANGED << faults, closeFaults >>
  /\ closePc[c] = "locked"
  /\ IF ~isConnected
       THEN /\ mu' = NoCloser
            /\ closePc' = [closePc EXCEPT ![c] = "done"]
            /\ closeDid' = [closeDid EXCEPT ![c] = "nothing"]
            /\ UNCHANGED << stopCloses, stopBy, panicked >>
       ELSE /\ stopCloses' = [stopCloses EXCEPT ![chans] = Bump(@)]
            /\ stopBy' = [stopBy EXCEPT ![chans] = IF @ = "none" THEN "Close" ELSE @]
            /\ panicked' = (stopCloses[chans] >= 1)
            /\ closePc' = [closePc EXCEPT ![c] = "wgWait"]
            /\ closeDid' = [closeDid EXCEPT ![c] = "stopped"]
            /\ UNCHANGED mu
  /\ UNCHANGED << flagVars, sockVars, chans, payloadsClosed, ctxCancelled, recvCloses,
                  keyVars, taskVars, hsVars, waitVars, closeAfter >>

\* vc.wg.Wait(); close(vc.Recv); the deferred vc.mu.Unlock().
Close_Recv(c) ==
  /\ ~panicked
  /\ UNCHANGED apiVars
  /\ UNCHANGED << faults, closeFaults >>
  /\ closePc[c] = "wgWait"
  /\ wg = 0
  /\ recvCloses' = Bump(recvCloses)
  /\ panicked' = (recvCloses >= 1)
  /\ mu' = NoCloser
  /\ closePc' = [closePc EXCEPT ![c] = "done"]
  /\ closeDid' = [closeDid EXCEPT ![c] = "closed"]
  /\ UNCHANGED << flagVars, sockVars, chans, stopCloses, stopBy, payloadsClosed, ctxCancelled,
                  keyVars, taskVars, hsVars, waitVars, closeAfter >>

(***************************************************************************)
(* VoiceConnection.Speaking (package harmony), called by the application   *)
(* from any of its goroutines.                                             *)
(***************************************************************************)

\* The value of vc.speaking that stands for the speaking state s.
SpeakingFlag(s) == IF s THEN 1 ELSE 0

\* Speaking_Load without the early return: the payload is sent also when the
\* user is already in the asked state.
Speaking_Load_noEarlyReturn(k, s, delay) ==
  /\ spPc[k] = "idle"
  /\ spCalls[k] < MaxSpeakingCalls
  /\ spCalls' = [spCalls EXCEPT ![k] = @ + 1]
  /\ spArg' = [spArg EXCEPT ![k] = s]
  /\ spDelay' = [spDelay EXCEPT ![k] = delay]
  /\ spPrev' = [spPrev EXCEPT ![k] = speaking]
  /\ spPc' = [spPc EXCEPT ![k] = "store"]
  /\ spRet' = [spRet EXCEPT ![k] = "pending"]
  /\ UNCHANGED << speaking, voiceSSRC, spSent, voiceConnVars, gatewayVars >>

\* Speaking(s, delay) is called: prev := atomic.LoadInt32(&vc.speaking);
\* if (prev == 1) == s { return nil }.
Speaking_Load(k, s, delay) ==
  /\ spPc[k] = "idle"
  /\ spCalls[k] < MaxSpeakingCalls
  /\ spCalls' = [spCalls EXCEPT ![k] = @ + 1]
  /\ spArg' = [spArg EXCEPT ![k] = s]
  /\ spDelay' = [spDelay EXCEPT ![k] = delay]
  /\ spPrev' = [spPrev EXCEPT ![k] = speaking]
  /\ IF (speaking = 1) = s
       THEN /\ spRet' = [spRet EXCEPT ![k] = "nil"]
            /\ UNCHANGED spPc
       ELSE /\ spPc' = [spPc EXCEPT ![k] = "store"]
            /\ spRet' = [spRet EXCEPT ![k] = "pending"]
  /\ UNCHANGED << speaking, voiceSSRC, spSent, voiceConnVars, gatewayVars >>

\* atomic.StoreInt32(&vc.speaking, 1) or (..., 0), after s.
Speaking_Store(k) ==
  /\ spPc[k] = "store"
  /\ speaking' = SpeakingFlag(spArg[k])
  /\ spPc' = [spPc EXCEPT ![k] = "send"]
  /\ UNCHANGED << voiceSSRC, spArg, spDelay, spPrev, spRet, spCalls, spSent, voiceConnVars,
                  gatewayVars >>

\* The payload is built from s, delay and vc.ssrc;
\* vc.sendPayload(voiceOpcodeSpeaking, p) succeeds (return nil) or fails.
Speaking_Send(k, ok) ==
  /\ spPc[k] = "send"
  /\ IF ok
       THEN /\ spSent' = Append(spSent, [speaking |-> spArg[k], delay |-> spDelay[k],
                                           ssrc |-> voiceSSRC])
            /\ spPc' = [spPc EXCEPT ![k] = "idle"]
            /\ spRet' = [spRet EXCEPT ![k] = "nil"]
       ELSE /\ spPc' = [spPc EXCEPT ![k] = "restore"]
            /\ UNCHANGED << spSent, spRet >>
  /\ UNCHANGED << speaking, voiceSSRC, spArg, spDelay, spPrev, spCalls, voiceConnVars,
                  gatewayVars >>

\* atomic.StoreInt32(&vc.speaking, prev); return err.
Speaking_Restore(k) ==
  /\ spPc[k] = "restore"
  /\ speaking' = spPrev[k]
  /\ spPc' = [spPc EXCEPT ![k] = "idle"]
  /\ spRet' = [spRet EXCEPT ![k] = "error"]
  /\ UNCHANGED << voiceSSRC, spArg, spDelay, spPrev, spCalls, spSent, voiceConnVars,
                  gatewayVars >>

(***************************************************************************)
(* Client.handleEvent (package harmony), called by the gateway reader for  *)
(* one payload at a time, and the voice join that receives from            *)
(* c.voicePayloads.                                                        *)
(***************************************************************************)

\* c.isConnectingToVoice().
isConnectingToVoice == connectingToVoice

\* p.T == eventVoiceStateUpdate || p.T == eventVoiceServerUpdate.
IsVoiceEvent(t) == t = eventVoiceStateUpdate \/ t = eventVoiceServerUpdate

\* handleEvent(p): switch p.Op; for a dispatch payload c.sequence.Store(p.S).
\* A payload with another opcode is handled without a store, a forward or a
\* dispatch.
handleEvent_Store(op, t) ==
  /\ evPc = "idle"
  /\ evCount < MaxEvents
  /\ evCount' = evCount + 1
  /\ evPayload' = [op |-> op, t |-> t, s |-> evCount + 1]
  /\ IF op = gatewayOpcodeDispatch
       THEN sequence' = evCount + 1 /\ evPc' = "check"
       ELSE UNCHANGED << sequence, evPc >>
  /\ UNCHANGED << connectingToVoice, forwarded, dispatched, joinPc, voiceConnVars,
                  speakingVars >>

\* handleEvent_Check forwarding every voice event, connecting or not.
handleEvent_Check_alwaysForwards ==
  /\ evPc = "check"
  /\ evPc' = IF IsVoiceEvent(evPayload.t) THEN "forward" ELSE "dispatch"
  /\ UNCHANGED << sequence, connectingToVoice, evPayload, evCount, forwarded, dispatched,
                  joinPc, voiceConnVars, speakingVars >>

\* if (p.T == eventVoiceStateUpdate || p.T == eventVoiceServerUpdate) &&
\* c.isConnectingToVoice().
handleEvent_Check ==
  /\ evPc = "check"
  /\ evPc' = IF IsVoiceEvent(evPayload.t) /\ isConnectingToVoice THEN "forward" ELSE "dispatch"
  /\ UNCHANGED << sequence, connectingToVoice, evPayload, evCount, forwarded, dispatched,
                  joinPc, voiceConnVars, speakingVars >>

\* c.voicePayloads <- p: the send completes when the voice join receives.
handleEvent_Forward ==
  /\ evPc = "forward"
  /\ joinPc = "receiving"
  /\ forwarded' = Append(forwarded, evPayload)
  /\ evPc' = "dispatch"
  /\ UNCHANGED << sequence, connectingToVoice, evPayload, evCount, dispatched, joinPc,
                  voiceConnVars, speakingVars >>

\* c.dispatch(p.T, p.D); handleEvent returns its error or nil.
handleEvent_Dispatch ==
  /\ evPc = "dispatch"
  /\ dispatched' = Append(dispatched, evPayload)
  /\ evPc' = "idle"
  /\ UNCHANGED << sequence, connectingToVoice, evPayload, evCount, forwarded, joinPc,
                  voiceConnVars, speakingVars >>

\* The client starts joining a voice channel and waits for the voice payloads.
JoinVoiceChannel_Begin ==
  /\ joinPc = "idle"
  /\ joinPc' = "receiving"
  /\ connectingToVoice' = TRUE
  /\ UNCHANGED << sequence, evPc, evPayload, evCount, forwarded, dispatched, voiceConnVars,
                  speakingVars >>

\* The join returns, with the payloads it waited for or on its timeout.
JoinVoiceChannel_End ==
  /\ joinPc = "receiving"
  /\ joinPc' = "idle"
  /\ connectingToVoice' = FALSE
  /\ UNCHANGED << sequence, evPc, evPayload, evCount, forwarded, dispatched, voiceConnVars,
                  speakingVars >>

(***************************************************************************)
(* The specification.                                                      *)
(***************************************************************************)

Next ==
  \/ \E g \in Gens, ok \in BOOLEAN : connect_Dial(g, ok)
  \/ \E g \in Gens : connect_RecvClosed(g)
  \/ \E g \in Gens, op \in InboundOpcodes, o \in {"ok", "badData", "sendFailed"} :
       connect_Hello(g, op, o)
  \/ \E g \in Gens, op \in InboundOpcodes,
          o \in {"ok", "badData", "resolveFailed", "dialFailed"} : connect_Ready(g, op, o)
  \/ \E g \in Gens, ok \in BOOLEAN : connect_Discovery(g, ok)
  \/ \E g \in Gens, ok \in BOOLEAN : connect_SelectProtocol(g, ok)
  \/ \E g \in Gens, op \in InboundOpcodes, ok \in BOOLEAN :
       connect_SessionDescription(g, op, ok)
  \/ \E g \in Gens : connect_OpusReady(g)
  \/ \E g \in Gens, ok \in BOOLEAN : sendSilenceFrame_On(g, ok)
  \/ \E g \in Gens, h \in Gens : sendSilenceFrame_Send(g, h)
  \/ \E g \in Gens, ok \in BOOLEAN : sendSilenceFrame_Off(g, ok)
  \/ \E g \in Gens : connect_MarkConnected(g)
  \/ \E g \in Gens, t \in Tasks : task_Ready(g, t)
  \/ \E g \in Gens, c \in Gens : task_Stop(g, c)
  \/ \E g \in Gens : udpHeartbeat_Tick(g)
  \/ \E w \in Gens, h \in Gens, t \in Tasks : wait_Error(w, h, t)
  \/ \E w \in Gens : wait_Stop(w)
  \/ \E w \in Gens, udpOk \in BOOLEAN : wait_Teardown(w, udpOk)
  \/ \E w \in Gens : wait_Decide(w)
  \/ \E w \in Gens : reconnectWithBackoff_Begin(w)
  \/ \E w \in Gens : reconnectWithBackoff_Attempt(w)
  \/ \E w \in Gens : reconnectWithBackoff_Return(w)
  \/ \E c \in Closers : Close_Lock(c)
  \/ \E c \in Closers : Close_Stop(c)
  \/ \E c \in Closers : Close_Recv(c)

Spec == Init /\ [][Next]_vars

\* The SSRCs a VoiceConnection may hold.
SSRCs == { ServerSSRC(g) : g \in 0..MaxReconnects }
Delays == {0, 5}

SpeakingNext ==
  \/ \E k \in Speakers, s \in BOOLEAN, delay \in Delays : Speaking_Load(k, s, delay)
  \/ \E k \in Speakers : Speaking_Store(k)
  \/ \E k \in Speakers, ok \in BOOLEAN : Speaking_Send(k, ok)
  \/ \E k \in Speakers : Speaking_Restore(k)

\* The calls of Speaking on an established VoiceConnection.
SpeakingInit ==
  /\ InitWith(MaxReconnects, MaxFaults, MaxCloseFaults)
  /\ \E x \in SSRCs : SpeakingIdle(x)
  /\ GatewayIdle

SpeakingSpec == SpeakingInit /\ [][SpeakingNext]_vars

GatewayNext ==
  \/ \E op \in GatewayOpcodes, t \in EventTypes : handleEvent_Store(op, t)
  \/ handleEvent_Check
  \/ handleEvent_Forward
  \/ handleEvent_Dispatch
  \/ JoinVoiceChannel_Begin
  \/ JoinVoiceChannel_End

\* The gateway event loop of a Client and its voice joins.
GatewaySpec == Init /\ [][GatewayNext]_vars

(***************************************************************************)
(* Properties of the handshake.                                            *)
(***************************************************************************)

\* Position of step s in the history q of a handshake; 0 when not performed.
StepIndex(q, s) ==
  IF \E i \in 1..Len(q) : q[i] = s THEN CHOOSE i \in 1..Len(q) : q[i] = s ELSE 0

\* Handshake g performed step s.
Performed(g, s) == StepIndex(steps[g], s) > 0

\* Handshake g performed step a, and step b after it.
InOrder(g, a, b) ==
  /\ Performed(g, a)
  /\ StepIndex(steps[g], a) < StepIndex(steps[g], b)

IsPrefix(p, q) == Len(p) <= Len(q) /\ SubSeq(q, 1, Len(p)) = p

\* The steps of a handshake that ends with the connection marked connected.
FullHandshake == HandshakeOrder \o << "connected" >>

\* The steps performed when connect waits for Hello, Ready, Session Description.
AtHelloWait == SubSeq(HandshakeOrder, 1, 1)
AtReadyWait == SubSeq(HandshakeOrder, 1, 4)
AtSDWait == SubSeq(HandshakeOrder, 1, 9)

\* C1: the signaling heartbeat goroutine of a handshake exists only once that
\* handshake has sent Identify, and its start follows the send.
C1_HeartbeatAfterIdentify ==
  \A g \in Gens :
    /\ task[g]["heartbeat"] # "none" => Performed(g, "identify")
    /\ Performed(g, "hbStart") => InOrder(g, "identify", "hbStart")

C1_Witness ==
  \E g \in Gens : task[g]["heartbeat"] = "running" /\ InOrder(g, "identify", "hbStart")

\* C2: a handshake that received another opcode than the expected one at the
\* Hello, Ready or Session Description wait has returned an error, performed
\* no step after that wait, and did not mark the connection connected.
C2_UnexpectedOpcodeAborts ==
  \A g \in Gens :
    hsGot[g] # 0 =>
      /\ hsPc[g] = "returned"
      /\ hsRet[g] = "error"
      /\ ~Performed(g, "connected")
      /\ \/ hsGot[g] # voiceOpcodeHello /\ steps[g] = AtHelloWait
         \/ hsGot[g] # voiceOpcodeReady /\ steps[g] = AtReadyWait
         \/ hsGot[g] # voiceOpcodeSessionDescription /\ steps[g] = AtSDWait

C2_Witness ==
  \E g \in Gens :
    hsGot[g] = voiceOpcodeHello /\ steps[g] = AtSDWait /\ hsRet[g] = "error"

\* C3: once connect has returned because of an unexpected opcode, the websocket
\* it opened is closed, the UDP socket it opened (if any) is closed, and the
\* stop channel is closed.
C3_NoSocketLeftOpen ==
  \A g \in Gens :
    (hsGot[g] # 0 /\ hsPc[g] = "returned") =>
      /\ wsState[g] = "closed"
      /\ udpState[g] # "open"
      /\ stopCloses[hsCh[g]] >= 1

\* C4: the step in which connect returns an error that is not an unexpected
\* opcode, after it opened the websocket, leaves the websocket it opened
\* closed, the UDP socket it opened (if any) closed, the stop channel of the
\* connection closed, its context cancelled and connected false, and does not
\* panic.
C4_FailureCleansUp ==
  [][\A g \in Gens :
       (hsRet[g] = "pending" /\ hsRet'[g] = "error" /\ hsGot'[g] = 0
          /\ Performed(g, "wsOpen")) =>
         /\ wsState'[g] = "closed"
         /\ udpState'[g] # "open"
         /\ stopCloses'[chans] >= 1
         /\ ctxCancelled'[chans]
         /\ ~connected'
         /\ ~panicked']_vars

\* C5: the steps of a handshake are performed in the order of HandshakeOrder,
\* none before its predecessor; connect returns nil, and connected is true,
\* only when a handshake performed all of them.
C5_ConnectedAfterAllSteps ==
  /\ \A g \in Gens : IsPrefix(steps[g], FullHandshake)
  /\ \A g \in Gens : hsRet[g] = "nil" => steps[g] = FullHandshake
  /\ connected => \E g \in Gens : steps[g] = FullHandshake
  /\ \A g \in Gens :
       steps[g] = FullHandshake =>
         /\ wsState[g] # "unopened" /\ udpState[g] # "unopened"
         /\ \A t \in Tasks : task[g][t] \notin {"none", "starting"}
         /\ (\E h \in Gens : audioSent[h]) /\ secret # 0 /\ ssrc # 0

C5_Witness ==
  \E g \in Gens : connected /\ hsRet[g] = "nil" /\ steps[g] = FullHandshake

\* C6: a handshake has a UDP socket only after it received Hello, sent
\* Identify and received Ready, in that order; a handshake that got Ready
\* where Hello was expected returned an error and opened no UDP socket.
C6_UDPAfterReady ==
  \A g \in Gens :
    /\ udpState[g] # "unopened" =>
         /\ InOrder(g, "hello", "identify")
         /\ InOrder(g, "identify", "ready")
         /\ InOrder(g, "ready", "udpOpen")
    /\ (hsGot[g] = voiceOpcodeReady /\ steps[g] = AtHelloWait) =>
         hsRet[g] = "error" /\ udpState[g] = "unopened"

C6_Witness ==
  \E g \in Gens :
    hsGot[g] = voiceOpcodeReady /\ steps[g] = AtHelloWait /\ hsRet[g] = "error"

\* C7: the audio goroutines of a handshake exist, and its sender has written
\* an audio packet, only after that handshake received Session Description
\* and copied the key.
C7_AudioAfterSessionDescription ==
  \A g \in Gens :
    (\/ task[g]["opusSender"] # "none"
     \/ task[g]["opusReceiver"] # "none"
     \/ audioSent[g]) =>
      /\ Performed(g, "sessionDescription")
      /\ secret # 0

C7_Witness ==
  \E g \in Gens : audioSent[g] /\ Performed(g, "sessionDescription") /\ secret = ServerKey(g)

(***************************************************************************)
(* Properties of Close.                                                    *)
(***************************************************************************)

\* C8: a Close call that begins after another Close call has closed Recv and
\* returned closes neither vc.stop nor vc.Recv, and does not panic.
C8_SecondCloseIsNoOp ==
  \A c \in Closers : closeAfter[c] => closeDid[c] \in {"none", "nothing"}

\* C9: of the Close calls made on the connection, at most one closes vc.stop,
\* and vc.Recv is closed at most once: every other call does nothing.
C9_OneCloserActs ==
  /\ Cardinality({ c \in Closers : closeDid[c] \in {"stopped", "closed"} }) <= 1
  /\ recvCloses <= 1

\* C10: no stop channel is closed a second time.
C10_StopClosedOnce == \A g \in Gens : stopCloses[g] <= 1

(***************************************************************************)
(* Properties of the supervisor: teardown and reconnection.                *)
(***************************************************************************)

\* The goroutines that read or write the UDP socket.
UDPTasks == {"udpHeartbeat", "opusReceiver", "opusSender"}

\* A goroutine that reads or writes the UDP socket has not returned.
UDPTaskAlive == \E g \in Gens, t \in UDPTasks : task[g][t] \in {"starting", "running"}

\* C11: the step in which wait closes the UDP socket is taken only when every
\* goroutine that reads or writes that socket has returned.
C11_UDPClosedAfterTasks ==
  [][\A w \in Gens :
       (waitPc[w] = "teardown" /\ waitPc'[w] = "decide" /\ udpConn # NoSock) =>
         ~UDPTaskAlive]_vars

\* No caller has called Close.
NoCloseCalled == \A c \in Closers : closePc[c] = "idle"

\* C12: wait, woken by a fatal error reported while the connection was
\* connected, with no Close called and no reconnection running, goes on to
\* reconnectWithBackoff.
C12_ErrorWhileConnectedReconnects ==
  [][\A w \in Gens :
       (/\ waitPc[w] = "decide" /\ waitPc'[w] # "decide"
        /\ waitBy[w] = "error" /\ waitConn[w]
        /\ NoCloseCalled /\ ~reconnecting) =>
         waitPc'[w] = "reconnect"]_vars

\* C13: wait, woken by a stop channel that Close closed, does not go on to
\* reconnectWithBackoff.
C13_StopNeverReconnects ==
  [][\A w \in Gens :
       (waitPc[w] = "decide" /\ waitBy[w] = "stop" /\ stopBy[waitCh[w]] = "Close") =>
         waitPc'[w] # "reconnect"]_vars

\* The scenario of RaceSpec: the first handshake is not disturbed and
\* succeeds; one caller calls Close, after the second reconnection attempt
\* succeeded; the goroutines told to stop return before the wait they were
\* started with goes on to reconnect.
RaceScenario ==
  /\ hsRet[0] = "pending" =>
       /\ faults = MaxRaceFaults /\ closeFaults = MaxRaceCloseFaults
       /\ waitPc[0] \in {"none", "select"}
  /\ hsRet[0] # "error"
  /\ \A c \in Closers : closePc[c] # "idle" => (c = 1 /\ hsRet[MaxRaceReconnects] = "nil")
  /\ \A g \in Gens, c \in Gens :
       (stopCloses[c] >= 1 /\ StoppedBy(g, c) # {}) =>
         \A w \in Gens : waitCh[w] = c => waitPc[w] \in {"none", "select", "teardown", "decide"}

\* The behaviours of the program with MaxRaceReconnects reconnection attempts
\* that follow the scenario.
RaceNext == Next /\ RaceScenario'

RaceInit ==
  /\ InitWith(MaxRaceReconnects, MaxRaceFaults, MaxRaceCloseFaults)
  /\ SpeakingIdle(ServerSSRC(0))
  /\ GatewayIdle

RaceSpec == RaceInit /\ [][RaceNext]_vars

\* wait w runs reconnectWithBackoff, or has decided to.
Reconnects(w) == waitPc[w] \in {"reconnect", "backoff", "connecting"}

\* C14: at most one wait runs reconnectWithBackoff.
C14_OneReconnectLoop == Cardinality({ w \in Gens : Reconnects(w) }) <= 1

\* A caller's Close closed vc.stop and wait, woken by it, ran onDisconnect.
CallerClosed ==
  /\ \E c \in Closers : closeDid[c] \in {"stopped", "closed"}
  /\ \E w \in Gens : waitBy[w] = "stop" /\ stopBy[waitCh[w]] = "Close"

\* C15: once a caller's Close has closed the connection, no step starts a
\* handshake and no step sets connected.
C15_ClosedIsTerminal ==
  [][CallerClosed =>
       /\ \A g \in Gens : hsPc[g] = "none" => hsPc'[g] = "none"
       /\ ~connected => ~connected']_vars

\* The positions at which connect receives from vc.payloads.
PayloadWaits == {"waitHello", "waitReady", "waitSD"}

\* The steps connect g takes without a payload from the server.
HandshakeLocal(g) ==
  \/ \E ok \in BOOLEAN : connect_Dial(g, ok)
  \/ connect_RecvClosed(g)
  \/ \E ok \in BOOLEAN : connect_Discovery(g, ok)
  \/ \E ok \in BOOLEAN : connect_SelectProtocol(g, ok)
  \/ connect_OpusReady(g)
  \/ \E ok \in BOOLEAN : sendSilenceFrame_On(g, ok)
  \/ \E h \in Gens : sendSilenceFrame_Send(g, h)
  \/ \E ok \in BOOLEAN : sendSilenceFrame_Off(g, ok)
  \/ connect_MarkConnected(g)

\* The steps wait w takes once its select has been woken by a closed vc.stop.
Supervisor(w) ==
  \/ wait_Stop(w)
  \/ \E udpOk \in BOOLEAN : wait_Teardown(w, udpOk)
  \/ wait_Decide(w)
  \/ reconnectWithBackoff_Begin(w)
  \/ reconnectWithBackoff_Attempt(w)
  \/ reconnectWithBackoff_Return(w)

\* The steps the goroutines of handshake g take by themselves.
TaskLocal(g) ==
  \/ \E t \in Tasks : task_Ready(g, t)
  \/ \E c \in Gens : task_Stop(g, c)

\* The steps of a Close call that holds the mutex.
CloseLocal(c) == Close_Stop(c) \/ Close_Recv(c)

\* The Go scheduler runs every goroutine that can take a step.  What the
\* server sends, the failures of the network and the calls of Close are not
\* bound to happen.
FairSpec ==
  /\ Spec
  /\ \A g \in Gens : WF_vars(HandshakeLocal(g))
  /\ \A w \in Gens : WF_vars(Supervisor(w))
  /\ \A g \in Gens : WF_vars(TaskLocal(g))
  /\ \A c \in Closers : WF_vars(CloseLocal(c))

\* C16: a connect that waits for a payload stops waiting, also when the
\* server sends none.
C16_HandshakeWaitEnds ==
  \A g \in Gens : (hsPc[g] \in PayloadWaits) ~> (hsPc[g] \notin PayloadWaits \/ panicked)

\* C17: a connect whose payloads channel belongs to a wait that handled a fatal
\* error does not die of the nil payload it receives from the closed channel.
C17_NoNilPayload ==
  \A g \in Gens, w \in Gens :
    (waitBy[w] = "error" /\ waitCh[w] = hsCh[g]) => hsRet[g] # "panic"

\* C18: when connect, the only handshake running, has taken its first step,
\* the SSRC, the key and the UDP heartbeat sequence are unset.
C18_EntryResetsSession ==
  [][\A g \in Gens :
       (/\ hsPc[g] = "start" /\ hsPc'[g] # "start"
        /\ \A h \in Gens \ {g} : hsPc[h] \in {"none", "unused", "returned"}) =>
         ssrc' = 0 /\ secret' = 0 /\ udpHeartbeatSequence' = 0]_vars

\* Handshake g is running, and not about to die on a closed payloads channel.
InFlight(g) ==
  /\ hsPc[g] \notin {"none", "unused", "returned"}
  /\ ~(hsPc[g] \in PayloadWaits /\ payloadsClosed[hsCh[g]])

\* C19: at most one handshake is running.
C19_OneHandshakeInFlight == Cardinality({ g \in Gens : InFlight(g) }) <= 1

\* C20 (as claimed): a payload that is not the expected one does not end the
\* handshake that received it.
C20_UnexpectedPayloadKept == \A g \in Gens : hsGot[g] # 0 => hsRet[g] # "error"

\* C20 (amended): the step in which connect receives a payload that is not the
\* expected one consumes it and ends the handshake with an error; connect
\* performs no later step to which it could be handed.
C20_UnexpectedPayloadEndsHandshake ==
  [][\A g \in Gens :
       (hsGot[g] = 0 /\ hsGot'[g] # 0) =>
         /\ hsPc'[g] = "returned"
         /\ hsRet'[g] = "error"
         /\ steps'[g] = steps[g]]_vars

C20_Witness ==
  \E g \in Gens :
    /\ hsGot[g] = voiceOpcodeSessionDescription
    /\ steps[g] = AtReadyWait
    /\ hsPc[g] = "returned"

(***************************************************************************)
(* Properties of the session: silence frame, SSRC, key, address discovery. *)
(***************************************************************************)

\* The last step of the history q; "" when q is empty.
LastStep(q) == IF Len(q) = 0 THEN "" ELSE q[Len(q)]

\* Number of times step s was performed in the history q.
Times(q, s) == Cardinality({ i \in 1..Len(q) : q[i] = s })

AudioTasks == {"opusReceiver", "opusSender"}

\* C21: a handshake that returned nil pushed exactly one silence frame, after
\* switching the speaking mode on and before switching it off; the step that
\* pushes the frame is taken only when both audio goroutines of the handshake
\* reported ready; the step in which a speaking-mode update fails makes connect
\* return an error, without having marked the connection connected, and
\* leaves connected false.
C21_OneSilenceFrame ==
  [][\A g \in Gens :
       /\ hsRet'[g] = "nil" =>
            /\ Times(steps'[g], "silenceFrame") = 1
            /\ Times(steps'[g], "speakingOn") = 1
            /\ Times(steps'[g], "speakingOff") = 1
            /\ StepIndex(steps'[g], "opusReady") > 0
            /\ StepIndex(steps'[g], "opusReady") < StepIndex(steps'[g], "speakingOn")
            /\ StepIndex(steps'[g], "speakingOn") < StepIndex(steps'[g], "silenceFrame")
            /\ StepIndex(steps'[g], "silenceFrame") < StepIndex(steps'[g], "speakingOff")
       /\ (hsPc[g] = "silenceFrame" /\ hsPc'[g] # "silenceFrame") =>
            /\ \A t \in AudioTasks : task[g][t] \in {"running", "done"}
            /\ LastStep(steps[g]) = "speakingOn"
            /\ LastStep(steps'[g]) = "silenceFrame"
       /\ (hsPc[g] \in {"speakingOn", "speakingOff"} /\ hsPc'[g] = "returned") =>
            /\ hsRet'[g] = "error"
            /\ StepIndex(steps'[g], "connected") = 0
            /\ ~connected']_vars

\* A connection was established and closed, wait reconnected, and the
\* reconnection failed at the second speaking-mode update, after its silence
\* frame was pushed.
C21_Witness ==
  \E g \in Gens, h \in Gens :
    /\ hsRet[g] = "nil" /\ Times(steps[g], "silenceFrame") = 1
    /\ hsRet[h] = "error" /\ LastStep(steps[h]) = "silenceFrame"
    /\ ~connected

\* Handshake g performs step s in this step.
Performs(g, s) == StepIndex(steps[g], s) = 0 /\ StepIndex(steps'[g], s) > 0

\* C22: a step changes the SSRC only if a handshake accepts its Ready payload
\* in that step, and a handshake that accepts its Ready payload leaves the
\* SSRC of that payload in vc.ssrc.
C22_SSRCWrittenAtReady ==
  [][/\ ssrc' # ssrc => \E g \in Gens : hsPc[g] = "waitReady" /\ Performs(g, "ready")
     /\ \A g \in Gens : Performs(g, "ready") => ssrc' = ServerSSRC(g)]_vars

\* After a first session, a reconnection succeeded and holds the SSRC of its
\* own Ready payload.
C22_Witness ==
  \E g \in Gens \ {0} :
    /\ hsRet[0] = "nil" /\ hsRet[g] = "nil"
    /\ ssrc = ServerSSRC(g) /\ ssrc # ServerSSRC(0)
    /\ \E w \in Gens : waitPc[w] = "done" /\ waitBy[w] # "none"

\* An audio goroutine, which reads the key, has not returned.
AudioTaskAlive == \E h \in Gens, t \in AudioTasks : task[h][t] \in {"starting", "running"}

\* C23: a step changes the key only if a handshake performs its Session
\* Description step in it, for the first time, and no audio goroutine is
\* alive when it does.
C23_KeyWrittenWithoutReaders ==
  [][secret' # secret =>
       /\ \E g \in Gens :
            /\ hsPc[g] = "waitSD" /\ Performs(g, "sessionDescription")
            /\ secret' = ServerKey(g)
       /\ ~AudioTaskAlive]_vars

AllTasksDone ==
  /\ \A g \in Gens, t \in Tasks : task[g][t] \in {"none", "done"}
  /\ \A w \in Gens : waitPc[w] \in {"none", "done"}

\* C25: the step in which a Close call that found the connection connected
\* closes Recv and returns is taken only when every goroutine has returned,
\* and leaves connected false, no websocket and no UDP socket open, and Recv
\* closed.
C25_CloseLeavesNothingRunning ==
  [][\A c \in Closers :
       (closePc[c] = "wgWait" /\ closePc'[c] = "done") =>
         /\ AllTasksDone
         /\ AllTasksDone'
         /\ ~connected'
         /\ \A g \in Gens : wsState'[g] # "open" /\ udpState'[g] # "open"
         /\ recvCloses = 0 /\ recvCloses' = 1]_vars

\* A goroutine is running on a stop channel that is not closed.
TaskWithoutStopSignal ==
  \E g \in Gens, t \in Tasks :
    task[g][t] \in {"starting", "running"} /\ stopCloses[taskCh[g][t]] = 0

\* C26: the step in which wait runs onError while connected is false is taken
\* only when vc.stop is closed, and leaves no goroutine running on a stop
\* channel that is not closed.
C26_StopClosedBeforeEarlyError ==
  [][\A w \in Gens :
       (/\ waitPc[w] = "select" /\ waitPc'[w] = "teardown"
        /\ waitBy'[w] = "error" /\ ~waitConn'[w]) =>
         /\ stopCloses[chans] >= 1
         /\ ~TaskWithoutStopSignal']_vars

\* A caller's Close has returned after closing Recv, and the wait it woke ran
\* onDisconnect and returned.
NormalDisconnectionDone ==
  /\ \E c \in Closers : closeDid[c] = "closed"
  /\ \E w \in Gens :
       waitBy[w] = "stop" /\ stopBy[waitCh[w]] = "Close" /\ waitPc[w] = "done"

\* C27: once a normal disconnection has completed, the UDP heartbeat sequence
\* is 0.
C27_SequenceZeroAfterClose == NormalDisconnectionDone => udpHeartbeatSequence = 0

(***************************************************************************)
(* Properties of VoiceConnection.Speaking and Client.handleEvent.          *)
(***************************************************************************)

\* Caller k calls Speaking in this step.
Calls(k) == spCalls'[k] # spCalls[k]

\* C28: a call of Speaking(s, delay) made when vc.speaking stands for s returns
\* nil in the step of the call, sends no payload and leaves vc.speaking as it
\* is.
C28_SameStateIsNoOp ==
  [][\A k \in Speakers :
       (Calls(k) /\ speaking = SpeakingFlag(spArg'[k])) =>
         /\ spRet'[k] = "nil" /\ spPc'[k] = "idle"
         /\ spSent' = spSent
         /\ speaking' = speaking]_vars

\* A caller asked for the speaking state that an earlier call had set, and
\* got nil without a second payload being sent.
C28_Witness ==
  \E k \in Speakers :
    /\ spPc[k] = "idle" /\ spRet[k] = "nil"
    /\ spArg[k] /\ spPrev[k] = 1 /\ speaking = 1
    /\ Len(spSent) = 1

\* C29: the step in which Speaking returns the error of a failed send leaves
\* vc.speaking at the value it had when the call was made; the step in which
\* Speaking returns after a successful send leaves vc.speaking at the value
\* that stands for s, the payload sent carrying s and the SSRC of the
\* connection.
C29_FlagFollowsSend ==
  [][\A k \in Speakers :
       /\ (spPc[k] = "restore" /\ spPc'[k] = "idle") =>
            spRet'[k] = "error" /\ speaking' = spPrev[k]
       /\ (spPc[k] = "send" /\ spPc'[k] = "restore") => spSent' = spSent
       /\ (spPc[k] = "send" /\ spPc'[k] = "idle") =>
            /\ spRet'[k] = "nil"
            /\ speaking' = SpeakingFlag(spArg[k])
            /\ Len(spSent') = Len(spSent) + 1
            /\ spSent'[Len(spSent')].speaking = spArg[k]
            /\ spSent'[Len(spSent')].ssrc = voiceSSRC]_vars

\* C30: handleEvent decides to forward a dispatch payload exactly when it is a
\* voice state update or a voice server update and the client is connecting
\* to voice, and a payload is sent on c.voicePayloads only after that decision;
\* c.sequence is written only by the first step of handleEvent on a dispatch
\* payload, with the sequence number of that payload, and the payload is
\* passed to c.dispatch after the store, forwarded or not.
C30_ForwardedIffConnecting ==
  [][/\ (evPc = "check" /\ evPc' # "check") =>
          ((evPc' = "forward") <=> (IsVoiceEvent(evPayload.t) /\ connectingToVoice))
     /\ forwarded' # forwarded =>
          /\ evPc = "forward"
          /\ forwarded' = Append(forwarded, evPayload)
          /\ connectingToVoice
     /\ (evPc # "idle" /\ evPc' = "idle") =>
          /\ evPayload.op = gatewayOpcodeDispatch
          /\ sequence = evPayload.s
          /\ dispatched' = Append(dispatched, evPayload)
     /\ dispatched' # dispatched => (evPc = "dispatch" /\ evPc' = "idle")
     /\ sequence' # sequence =>
          /\ evPc = "idle" /\ evPc' = "check"
          /\ evPayload'.op = gatewayOpcodeDispatch /\ sequence' = evPayload'.s]_vars

\* A voice event was forwarded and dispatched, another was dispatched without
\* being forwarded.
C30_Witness ==
  /\ evPc = "idle"
  /\ \E i \in 1..Len(dispatched), j \in 1..Len(dispatched) :
       /\ IsVoiceEvent(dispatched[i].t) /\ IsVoiceEvent(dispatched[j].t)
       /\ \E m \in 1..Len(forwarded) : forwarded[m] = dispatched[i]
       /\ \A m \in 1..Len(forwarded) : forwarded[m] # dispatched[j]
  /\ sequence = evCount

(***************************************************************************)
(* Properties of Close, wait and Speaking under concurrency.               *)
(***************************************************************************)

\* C31: the step a Close call takes, holding the mutex, when connected is
\* false returns from Close, and closes neither vc.stop nor Recv, cancels no
\* context and leaves wait and reconnectWithBackoff where they are.
C31_CloseWhenNotConnected ==
  [][\A c \in Closers :
       (closePc[c] = "locked" /\ closePc'[c] # "locked" /\ ~connected) =>
         /\ closePc'[c] = "done" /\ closeDid'[c] = "nothing" /\ mu' = NoCloser
         /\ stopCloses' = stopCloses
         /\ recvCloses' = recvCloses
         /\ ctxCancelled' = ctxCancelled
         /\ reconnecting' = reconnecting
         /\ waitPc' = waitPc /\ attempt' = attempt /\ hsPc' = hsPc
         /\ ~panicked']_vars

\* A Close call found the connection not connected and returned; a
\* reconnection has succeeded since, and the connection is connected.
C31_Witness ==
  \E c \in Closers, g \in Gens \ {0} :
    /\ closeDid[c] = "nothing" /\ closePc[c] = "done"
    /\ hsRet[g] = "nil" /\ connected
    /\ recvCloses = 0 /\ stopCloses[chans] = 0

\* C32: a Close call that closed vc.stop and waits for the goroutines returns.
C32_CloseReturns ==
  \A c \in Closers : (closePc[c] = "wgWait") ~> (closePc[c] = "done")

\* C33: when Connect's handshake returned an error and its cleanup closed
\* vc.stop, the wait woken by that stop signal does not go on to
\* reconnectWithBackoff.
C33_FailedConnectNeverReconnects ==
  [][(/\ waitPc[0] = "decide" /\ waitBy[0] = "stop"
      /\ stopBy[waitCh[0]] = "connect" /\ hsRet[0] = "error") =>
        waitPc'[0] # "reconnect"]_vars

\* C34: while wait decides whether to reconnect, the payload channel it was
\* started with is closed, its context is cancelled, the UDP socket, if one
\* was opened, is closed, and connected is false.
C34_TornDownBeforeDecision ==
  \A w \in Gens :
    waitPc[w] = "decide" =>
      /\ payloadsClosed[waitCh[w]]
      /\ ctxCancelled[waitCh[w]]
      /\ udpConn # NoSock => udpState[udpConn] = "closed"
      /\ ~connected

\* C35: no websocket and no UDP socket is closed more than once.
C35_SocketsClosedOnce ==
  /\ \A s \in DOMAIN wsCloses : wsCloses[s] <= 1
  /\ \A s \in DOMAIN udpCloses : udpCloses[s] <= 1

\* Every call of Speaking has returned.
AllSpeakingReturned == \A k \in Speakers : spPc[k] = "idle"

\* The callers that have called Speaking.
SpeakingCallers == { k \in Speakers : spCalls[k] > 0 }

\* C36: once every call of Speaking has returned, vc.speaking stands for the
\* state of the last payload sent; and callers that made one call each, all for
\* the same state, have sent one payload at most between them.
C36_ConcurrentSpeaking ==
  /\ (AllSpeakingReturned /\ Len(spSent) > 0) =>
       speaking = SpeakingFlag(spSent[Len(spSent)].speaking)
  /\ (/\ \A k \in SpeakingCallers : spCalls[k] = 1
      /\ \A j, k \in SpeakingCallers : spArg[j] = spArg[k]) =>
       Len(spSent) <= 1

====
